---------------------------- MODULE Spec2Model ----------------------------
(***************************************************************************)
(* Model of src/spotify_client.py: the process-wide credential cache       *)
(* (get_access_token), the two single-resource lookups (get_track_info,    *)
(* get_artist_info) and the two batch validators.                          *)
(*                                                                         *)
(* Time: local computation takes no time; the clock advances only while    *)
(* every call chain is idle or blocked in a network request, and a request *)
(* never blocks longer than its timeout.                                   *)
(* Python values: None is the string "None"; a dict is a function whose    *)
(* DOMAIN is its set of keys; an exception is the name of its class.       *)
(***************************************************************************)
EXTENDS Integers, Sequences, FiniteSets, TLC

VARIABLES
    SPOTIFY_CLIENT_ID,          \* module global, line 11
    SPOTIFY_CLIENT_SECRET,      \* module global, line 12
    ACCESS_TOKEN,               \* _ACCESS_TOKEN, line 17
    ACCESS_TOKEN_EXPIRES_AT,    \* _ACCESS_TOKEN_EXPIRES_AT, line 18
    clock,                      \* time.time()
    calls,                      \* the calls of get_access_token the operations called so far make
    nissued,                    \* the number of tokens the service has issued
    slotMeta,                   \* of the token in the slot: its end of life, and the
                                \* `now` and lifetime of the exchange that stored it
    op,                         \* per chain: the public operation it is running
    pc,                         \* per chain: its position in the code
    now,                        \* per chain: local `now` of get_access_token
    snap,                       \* per chain: the cache slot when get_access_token was entered
    nposts,                     \* per chain: token requests sent by the running get_access_token
    deadline,                   \* per chain: when the pending request times out
    payload,                    \* per chain: local `payload` of get_access_token
    grant,                      \* per chain: end of life of the token in payload
    gat,                        \* per chain: how its latest get_access_token call ended
    arg,                        \* per chain: the identifier being looked up
    lk,                         \* per chain: the state of the running lookup
    ngets,                      \* per chain: resource requests sent by the running lookup
    rstatus,                    \* per chain: status of the response to the running lookup
                                \* (0: none, or a transport failure)
    info,                       \* per chain: how the lookup of the current batch item ended
    ids,                        \* per chain: the batch's input list
    idx,                        \* per chain: position of the batch loop in ids
    valid,                      \* per chain: the batch's result dict so far
    log,                        \* per chain: how the lookup at each position of ids ended
    got,                        \* per chain: id and name of the record the lookup at each
                                \* position of ids returned, when the batch accepted it
    unsent,                     \* per chain: a lookup of the running batch ended before
                                \* its resource request was sent
    answers,                    \* what the catalog service answered, by kind and identifier
    prev,                       \* per chain: the batch whose input list the running batch
                                \* repeats in another order
    rejected,                   \* the token of the latest resource request of a single
                                \* lookup that was answered 401
    ret                         \* per chain: how its latest public operation ended

vars == <<SPOTIFY_CLIENT_ID, SPOTIFY_CLIENT_SECRET, ACCESS_TOKEN,
          ACCESS_TOKEN_EXPIRES_AT, clock, calls, nissued, slotMeta, op, pc, now, snap,
          nposts, deadline, payload, grant, gat, arg, lk, ngets, rstatus, info, ids, idx, valid,
          log, got, unsent, answers, prev, rejected, ret>>

cfgVars    == <<SPOTIFY_CLIENT_ID, SPOTIFY_CLIENT_SECRET>>
slotVars   == <<ACCESS_TOKEN, ACCESS_TOKEN_EXPIRES_AT, slotMeta>>
gatLocals  == <<now, snap, nposts, payload, grant, deadline>>
lookupVars == <<arg, lk, ngets, rstatus>>
batchVars  == <<ids, idx, valid, log, got, unsent>>
steadyVars == <<answers, prev>>

-----------------------------------------------------------------------------
(* Bounds of the model *)

MaxTicks  == 2      \* the clock advances at most this many times
MaxCalls  == 3      \* calls of get_access_token in one run
MaxIssued == 2      \* the service issues at most this many tokens
MaxBatch  == 2      \* longest input list of a batch validation

Chains     == {1, 2}            \* call chains (threads) of the concurrent runs
SeqChains  == {1}               \* the single call chain of the sequential runs
TickSteps  == {10}              \* amounts by which the clock advances
MaxClock   == 10 * MaxTicks     \* the clock stops advancing here
Lifetimes  == {20, 40}          \* lifetimes the service declares in expires_in
ConfigVals == {"None", "", "app"}   \* os.getenv(): unset, empty, set
InputIds   == {"a", "b"}        \* identifiers callers pass

(* Program constants *)

MARGIN             == 30        \* line 57
DEFAULT_EXPIRES_IN == 3600      \* line 56
TIMEOUT            == 10        \* lines 48, 69, 96

-----------------------------------------------------------------------------
(* Python values *)

None == "None"
Truthy(v) == v # None /\ v # ""
Or(v, d) == IF Truthy(v) THEN v ELSE d
Get(d, k, default) == IF k \in DOMAIN d THEN d[k] ELSE default
EmptyDict == [k \in {} |-> None]

(* The service's k-th token *)
Tok(k) == "tok" \o ToString(k)

NoMeta == [end |-> 0, now |-> 0, life |-> 0]
NoSnap == [tok0 |-> None, exp0 |-> 0, due |-> FALSE]
NoCall == [kind |-> "none", val |-> None, how |-> "none", status |-> 0, at |-> 0,
           took |-> 0, life |-> 0, left |-> 0, nposts |-> 0, same |-> TRUE,
           due |-> FALSE]
NoResult == [kind |-> "none", val |-> None]
NoPrev == [op |-> "none", ids |-> << >>, res |-> NoResult, unsent |-> FALSE]

-----------------------------------------------------------------------------
(* The state after import: lines 9-18 *)

Init ==
    /\ SPOTIFY_CLIENT_ID \in ConfigVals
    /\ SPOTIFY_CLIENT_SECRET \in ConfigVals
    /\ ACCESS_TOKEN = None
    /\ ACCESS_TOKEN_EXPIRES_AT = 0
    /\ clock = 0
    /\ calls = 0
    /\ nissued = 0
    /\ slotMeta = NoMeta
    /\ op = [c \in Chains |-> "none"]
    /\ pc = [c \in Chains |-> "idle"]
    /\ now = [c \in Chains |-> 0]
    /\ snap = [c \in Chains |-> NoSnap]
    /\ nposts = [c \in Chains |-> 0]
    /\ deadline = [c \in Chains |-> 0]
    /\ payload = [c \in Chains |-> EmptyDict]
    /\ grant = [c \in Chains |-> 0]
    /\ gat = [c \in Chains |-> NoCall]
    /\ arg = [c \in Chains |-> ""]
    /\ lk = [c \in Chains |-> "NotStarted"]
    /\ ngets = [c \in Chains |-> 0]
    /\ rstatus = [c \in Chains |-> 0]
    /\ info = [c \in Chains |-> NoResult]
    /\ ids = [c \in Chains |-> << >>]
    /\ idx = [c \in Chains |-> 0]
    /\ valid = [c \in Chains |-> EmptyDict]
    /\ log = [c \in Chains |-> << >>]
    /\ got = [c \in Chains |-> << >>]
    /\ unsent = [c \in Chains |-> FALSE]
    /\ answers = EmptyDict
    /\ prev = [c \in Chains |-> NoPrev]
    /\ rejected = None
    /\ ret = [c \in Chains |-> NoResult]

-----------------------------------------------------------------------------
(* The clock.  It advances only while no chain is computing, and never past *)
(* the deadline of a pending request (timeout=10, lines 48, 69, 96).        *)

Blocked(c) == pc[c] \in {"gat_wait", "get_wait"}
Quiet(c) == pc[c] \in {"idle", "done", "gat_wait", "get_wait"}

Tick ==
    \E d \in TickSteps :
        /\ clock + d <= MaxClock
        /\ \A c \in Chains : Quiet(c)
        /\ \A c \in Chains : Blocked(c) => clock + d <= deadline[c]
        /\ clock' = clock + d
        /\ UNCHANGED <<cfgVars, rejected, steadyVars, slotVars, calls, nissued, op, pc, gatLocals, gat,
                       lookupVars, info, batchVars, ret>>

-----------------------------------------------------------------------------
(* How a call returns to its caller *)

(* get_track_info / get_artist_info end with result res: the result goes to *)
(* the caller of the public operation, or to the batch loop (lines 118,138) *)
LookupEnd(c, res, state) ==
    /\ lk' = [lk EXCEPT ![c] = state]
    /\ IF op[c] \in {"track", "artist"}
       THEN /\ pc' = [pc EXCEPT ![c] = "done"]
            /\ ret' = [ret EXCEPT ![c] = res]
            /\ UNCHANGED info
       ELSE /\ pc' = [pc EXCEPT ![c] = "item"]
            /\ info' = [info EXCEPT ![c] = res]
            /\ UNCHANGED ret

(* The token in the slot is due for renewal at time t: t has reached the    *)
(* `now` of the exchange that stored it + its lifetime - 30 s               *)
RenewalDue(t) ==
    Truthy(ACCESS_TOKEN) /\ t >= slotMeta.now + slotMeta.life - MARGIN

(* get_access_token ends: it returns val or raises val, and its locals are  *)
(* gone.  gat records the call: the status the service answered (0: none),  *)
(* when the call ended, how long it took, the lifetime it was told, what    *)
(* validity the returned token has left, the requests it sent, whether it   *)
(* left the slot as it found it, whether renewal was due.  Its caller       *)
(* is the public caller or _auth_headers (lines 62-64) inside a lookup,     *)
(* which passes a raised error on and otherwise goes on to the resource     *)
(* request.                                                                 *)
GatEnd(c, kind, val, how, status) ==
    /\ gat' = [gat EXCEPT ![c] =
                 [kind |-> kind, val |-> val, how |-> how, status |-> status,
                  at |-> clock,
                  took |-> clock - now[c],
                  life |-> IF how = "fresh"
                           THEN Get(payload[c], "expires_in", DEFAULT_EXPIRES_IN)
                           ELSE 0,
                  left |-> IF kind = "return" /\ Truthy(val)
                           THEN slotMeta.end - clock ELSE 0,
                  nposts |-> nposts[c],
                  same |-> /\ ACCESS_TOKEN = snap[c].tok0
                           /\ ACCESS_TOKEN_EXPIRES_AT = snap[c].exp0,
                  due |-> snap[c].due]]
    /\ now' = [now EXCEPT ![c] = 0]
    /\ snap' = [snap EXCEPT ![c] = NoSnap]
    /\ nposts' = [nposts EXCEPT ![c] = 0]
    /\ payload' = [payload EXCEPT ![c] = EmptyDict]
    /\ grant' = [grant EXCEPT ![c] = 0]
    /\ deadline' = [deadline EXCEPT ![c] = 0]
    /\ IF op[c] = "token"
       THEN /\ pc' = [pc EXCEPT ![c] = "done"]
            /\ ret' = [ret EXCEPT ![c] = [kind |-> kind, val |-> val]]
            /\ UNCHANGED <<info, lk>>
       ELSE IF kind = "return"
       THEN /\ pc' = [pc EXCEPT ![c] = "get_send"]
            /\ lk' = [lk EXCEPT ![c] = "CredentialAcquired"]
            /\ UNCHANGED <<info, ret>>
       ELSE LookupEnd(c, [kind |-> "raise", val |-> val], "Failed")

(* The calls of get_access_token that operation o makes on the list l *)
Acquisitions(o, l) == IF o \in {"vtracks", "vartists"} THEN Len(l) ELSE 1

(* The locals of a public operation as it is entered *)
Frame(c, o, a, l) ==
    /\ op' = [op EXCEPT ![c] = o]
    /\ arg' = [arg EXCEPT ![c] = a]
    /\ lk' = [lk EXCEPT ![c] = "NotStarted"]
    /\ ngets' = [ngets EXCEPT ![c] = 0]
    /\ rstatus' = [rstatus EXCEPT ![c] = 0]
    /\ info' = [info EXCEPT ![c] = NoResult]
    /\ ids' = [ids EXCEPT ![c] = l]
    /\ idx' = [idx EXCEPT ![c] = IF o \in {"vtracks", "vartists"} THEN 1 ELSE 0]
    /\ valid' = [valid EXCEPT ![c] = EmptyDict]
    /\ log' = [log EXCEPT ![c] = << >>]
    /\ got' = [got EXCEPT ![c] = << >>]
    /\ unsent' = [unsent EXCEPT ![c] = FALSE]
    /\ ret' = [ret EXCEPT ![c] = NoResult]

(* A public operation is entered: nothing is left of the chain's last one *)
NewFrame(c, o, a, l) ==
    /\ pc[c] \in {"idle", "done"}
    /\ calls + Acquisitions(o, l) <= MaxCalls
    /\ calls' = calls + Acquisitions(o, l)
    /\ Frame(c, o, a, l)

-----------------------------------------------------------------------------
(* The authorization service: what it may answer to one token request sent  *)
(* at time sentAt.  A transport failure (timeout, connection error) raises  *)
(* in requests.post; otherwise there is a status and a body, which is JSON  *)
(* or not.  A 200 body may carry a new token Tok(k), issued at some moment  *)
(* of the request (end = that moment + its lifetime), an empty token or no  *)
(* token, and may declare the lifetime or leave it out (the service's       *)
(* lifetime is then the documented 3600 s).                                 *)

TokenStatuses == {200, 201, 401}

TokenBodies(k) ==
    {[access_token |-> t, expires_in |-> e] : t \in {Tok(k), ""}, e \in Lifetimes}
    \cup {[access_token |-> t] : t \in {Tok(k), ""}}
    \cup {[expires_in |-> e] : e \in Lifetimes}
    \cup {EmptyDict}

TokenResponses(sentAt) ==
    LET k == nissued + 1 IN
    {[kind |-> "transport", status |-> 0, json |-> FALSE, body |-> EmptyDict, end |-> 0]}
    \cup {[kind |-> "http", status |-> s, json |-> FALSE, body |-> EmptyDict, end |-> 0] :
             s \in TokenStatuses}
    \cup {[kind |-> "http", status |-> s, json |-> TRUE, body |-> EmptyDict, end |-> 0] :
             s \in TokenStatuses \ {200}}
    \cup {[kind |-> "http", status |-> 200, json |-> TRUE, body |-> b, end |-> 0] :
             b \in {x \in TokenBodies(k) : Get(x, "access_token", "") # Tok(k)}}
    \cup {[kind |-> "http", status |-> 200, json |-> TRUE, body |-> b,
            end |-> t + Get(b, "expires_in", DEFAULT_EXPIRES_IN)] :
             b \in {x \in TokenBodies(k) : /\ k <= MaxIssued
                                          /\ Get(x, "access_token", "") = Tok(k)},
             t \in {sentAt, clock}}

-----------------------------------------------------------------------------
(* get_access_token, lines 34-59 *)

(* line 39 with the comparison turned round *)
CacheHitInverted(t) == Truthy(ACCESS_TOKEN) /\ t > ACCESS_TOKEN_EXPIRES_AT

(* line 39 without the test of the expiry *)
CacheHitIgnoringExpiry(t) == Truthy(ACCESS_TOKEN)

(* line 39 never taking the cached token *)
CacheHitNever(t) == FALSE

(* line 39 *)
CacheHit(t) == Truthy(ACCESS_TOKEN) /\ t < ACCESS_TOKEN_EXPIRES_AT

(* line 57 without the margin *)
ExpiresAtNoMargin(t, expires_in) == t + expires_in

(* line 57 ignoring the declared lifetime *)
ExpiresAtIgnoringLifetime(t, expires_in) == t + DEFAULT_EXPIRES_IN - MARGIN

(* line 57 *)
ExpiresAt(t, expires_in) == t + expires_in - MARGIN

(* line 26 testing the identifier alone *)
ConfigPresentIdOnly == Truthy(SPOTIFY_CLIENT_ID)

(* _get_basic_auth_header, lines 25-31: the header is built from the pair,  *)
(* or the call raises                                                       *)
ConfigPresent == Truthy(SPOTIFY_CLIENT_ID) /\ Truthy(SPOTIFY_CLIENT_SECRET)

(* line 49 accepting every 2xx status *)
ExchangeOk2xx(status) == status >= 200 /\ status < 300

(* line 49 *)
ExchangeOk(status) == status = 200

CallGetAccessToken(c) ==
    /\ NewFrame(c, "token", "", << >>)
    /\ pc' = [pc EXCEPT ![c] = "gat_check"]
    /\ UNCHANGED <<cfgVars, rejected, steadyVars, slotVars, clock, nissued, gatLocals, gat>>

(* lines 38-39 *)
GatCheck(c) ==
    /\ pc[c] = "gat_check"
    /\ now' = [now EXCEPT ![c] = clock]
    /\ snap' = [snap EXCEPT ![c] = [tok0 |-> ACCESS_TOKEN,
                                    exp0 |-> ACCESS_TOKEN_EXPIRES_AT,
                                    due |-> RenewalDue(clock)]]
    /\ pc' = [pc EXCEPT ![c] = IF CacheHit(clock) THEN "gat_hit" ELSE "gat_request"]
    /\ UNCHANGED <<cfgVars, rejected, steadyVars, slotVars, clock, calls, nissued, op, nposts, payload, grant,
                   deadline, gat, lookupVars, info, batchVars, ret>>

(* line 40 *)
GatHit(c) ==
    /\ pc[c] = "gat_hit"
    /\ GatEnd(c, "return", ACCESS_TOKEN, "hit", 0)
    /\ UNCHANGED <<cfgVars, rejected, steadyVars, slotVars, clock, calls, nissued, op, arg, ngets, rstatus, batchVars>>

(* lines 42-48: build the headers, which raises when the configuration is   *)
(* missing, then send the request                                           *)
GatRequest(c) ==
    /\ pc[c] = "gat_request"
    /\ IF ConfigPresent
       THEN /\ nposts' = [nposts EXCEPT ![c] = @ + 1]
            /\ deadline' = [deadline EXCEPT ![c] = clock + TIMEOUT]
            /\ pc' = [pc EXCEPT ![c] = "gat_wait"]
            /\ UNCHANGED <<now, snap, payload, grant, gat, lk, info, ret>>
       ELSE GatEnd(c, "raise", "SpotifyAuthError:config", "none", 0)
    /\ UNCHANGED <<cfgVars, rejected, steadyVars, slotVars, clock, calls, nissued, op, arg, ngets, rstatus, batchVars>>

(* lines 48-54: the response arrives *)
GatResponse(c) ==
    /\ pc[c] = "gat_wait"
    /\ \E r \in TokenResponses(deadline[c] - TIMEOUT) :
        /\ nissued' = IF r.end # 0 THEN nissued + 1 ELSE nissued
        /\ IF r.kind = "transport"
           THEN GatEnd(c, "raise", "RequestException", "none", 0)
           ELSE IF ~ExchangeOk(r.status)
           THEN GatEnd(c, "raise", "SpotifyAuthError:exchange", "none", r.status)
           ELSE IF ~r.json
           THEN GatEnd(c, "raise", "JSONDecodeError", "none", r.status)
           ELSE /\ payload' = [payload EXCEPT ![c] = r.body]
                /\ grant' = [grant EXCEPT ![c] = r.end]
                /\ deadline' = [deadline EXCEPT ![c] = 0]
                /\ pc' = [pc EXCEPT ![c] = "gat_store_token"]
                /\ UNCHANGED <<now, snap, nposts, gat, lk, info, ret>>
    /\ UNCHANGED <<cfgVars, rejected, steadyVars, slotVars, clock, calls, op, arg, ngets, rstatus, batchVars>>

(* line 55 *)
GatStoreToken(c) ==
    /\ pc[c] = "gat_store_token"
    /\ ACCESS_TOKEN' = Get(payload[c], "access_token", None)
    /\ slotMeta' = IF grant[c] # 0
                   THEN [end |-> grant[c], now |-> now[c],
                         life |-> Get(payload[c], "expires_in", DEFAULT_EXPIRES_IN)]
                   ELSE NoMeta
    /\ pc' = [pc EXCEPT ![c] = "gat_store_expiry"]
    /\ UNCHANGED <<cfgVars, rejected, steadyVars, ACCESS_TOKEN_EXPIRES_AT, clock, calls, nissued, op,
                   gatLocals, gat, lookupVars, info, batchVars, ret>>

(* lines 56-57 *)
GatStoreExpiry(c) ==
    /\ pc[c] = "gat_store_expiry"
    /\ ACCESS_TOKEN_EXPIRES_AT' =
           ExpiresAt(now[c], Get(payload[c], "expires_in", DEFAULT_EXPIRES_IN))
    /\ pc' = [pc EXCEPT ![c] = "gat_return"]
    /\ UNCHANGED <<cfgVars, rejected, steadyVars, ACCESS_TOKEN, slotMeta, clock, calls, nissued, op,
                   gatLocals, gat, lookupVars, info, batchVars, ret>>

(* line 59 *)
GatReturn(c) ==
    /\ pc[c] = "gat_return"
    /\ GatEnd(c, "return", Or(ACCESS_TOKEN, ""), "fresh", 200)
    /\ UNCHANGED <<cfgVars, rejected, steadyVars, slotVars, clock, calls, nissued, op, arg, ngets, rstatus, batchVars>>

GetAccessToken(c) ==
    \/ GatCheck(c)
    \/ GatHit(c)
    \/ GatRequest(c)
    \/ GatResponse(c)
    \/ GatStoreToken(c)
    \/ GatStoreExpiry(c)
    \/ GatReturn(c)

-----------------------------------------------------------------------------
(* The catalog service: what it may answer to one resource request for      *)
(* identifier a.  The body of an answer is JSON or not; a JSON body is an   *)
(* object (a dict) or something else (a list).  An object may carry id and  *)
(* name or lack them, and carries the other fields or none of them.         *)

CatalogStatuses == {200, 304, 401, 404, 500}

Merge(d1, d2) ==
    [k \in DOMAIN d1 \cup DOMAIN d2 |-> IF k \in DOMAIN d1 THEN d1[k] ELSE d2[k]]

CoreBodies(a) ==
    {[id |-> i, name |-> n] : i \in {a, "relinked", ""}, n \in {"Song", ""}}
    \cup {[id |-> i] : i \in {a, "relinked", ""}}
    \cup {[name |-> n] : n \in {"Song", ""}}
    \cup {EmptyDict}

TrackRest ==
    [duration_ms |-> 215000, explicit |-> FALSE, preview_url |-> "p",
     album |-> [id |-> "al1", name |-> "Album"],
     artists |-> <<[id |-> "ar1", name |-> "Artist"], [name |-> "Guest"]>>]

ArtistRest ==
    [genres |-> <<"pop">>, popularity |-> 80, followers |-> [total |-> 1000]]

CatalogBodies(kind, a) ==
    CoreBodies(a) \cup
    {Merge(b, IF kind = "track" THEN TrackRest ELSE ArtistRest) : b \in CoreBodies(a)}

CatalogResponses(kind, a) ==
    {[kind |-> "transport", status |-> 0, json |-> FALSE, isdict |-> FALSE,
      body |-> EmptyDict]}
    \cup {[kind |-> "http", status |-> s, json |-> FALSE, isdict |-> FALSE,
            body |-> EmptyDict] : s \in CatalogStatuses}
    \cup {[kind |-> "http", status |-> s, json |-> TRUE, isdict |-> FALSE,
            body |-> EmptyDict] : s \in {200, 304}}
    \cup {[kind |-> "http", status |-> s, json |-> TRUE, isdict |-> TRUE,
            body |-> b] : s \in {200, 304}, b \in CatalogBodies(kind, a)}

-----------------------------------------------------------------------------
(* get_track_info, lines 67-91, and get_artist_info, lines 94-107 *)

(* lines 74-91 *)
TrackInfo(data) ==
    [id |-> Get(data, "id", None),
     name |-> Get(data, "name", None),
     duration_ms |-> Get(data, "duration_ms", None),
     explicit |-> Get(data, "explicit", None),
     preview_url |-> Get(data, "preview_url", None),
     album |-> [id |-> Get(Get(data, "album", EmptyDict), "id", None),
                name |-> Get(Get(data, "album", EmptyDict), "name", None)],
     artists |-> LET arts == Get(data, "artists", << >>) IN
                 [i \in 1..Len(arts) |-> [id |-> Get(arts[i], "id", None),
                                          name |-> Get(arts[i], "name", None)]]]

(* lines 101-107 *)
ArtistInfo(data) ==
    [id |-> Get(data, "id", None),
     name |-> Get(data, "name", None),
     genres |-> Get(data, "genres", << >>),
     popularity |-> Get(data, "popularity", None),
     followers |-> Get(Get(data, "followers", EmptyDict), "total", None)]

(* lines 70, 97 testing for another status *)
IsNotFound400(status) == status = 400

(* lines 70, 97 without the test *)
IsNotFoundNever(status) == FALSE

(* lines 70, 97 *)
IsNotFound(status) == status = 404

(* lines 72, 99 raising for client errors only *)
RaiseForStatus4xx(status) == status >= 400 /\ status < 500

(* resp.raise_for_status(), lines 72, 99 *)
RaiseForStatus(status) == status >= 400 /\ status < 600

(* lines 69-91, 96-107: what the lookup makes of the response r *)
InfoResult(kind, r) ==
    IF r.kind = "transport"
    THEN [kind |-> "raise", val |-> "RequestException", state |-> "Failed"]
    ELSE IF IsNotFound(r.status)
    THEN [kind |-> "return", val |-> EmptyDict, state |-> "NotFound"]
    ELSE IF RaiseForStatus(r.status)
    THEN [kind |-> "raise", val |-> "HTTPError", state |-> "Failed"]
    ELSE IF ~r.json
    THEN [kind |-> "raise", val |-> "JSONDecodeError", state |-> "Failed"]
    ELSE IF ~r.isdict
    THEN [kind |-> "raise", val |-> "AttributeError", state |-> "Failed"]
    ELSE [kind |-> "return",
          val |-> IF kind = "track" THEN TrackInfo(r.body) ELSE ArtistInfo(r.body),
          state |-> "Success"]

LookupKind(c) == IF op[c] \in {"track", "vtracks"} THEN "track" ELSE "artist"

(* get_track_info(a) / get_artist_info(a) is called: lines 68, 95, and into *)
(* _auth_headers                                                            *)
CallGetInfo(c) ==
    /\ \E kind \in {"track", "artist"}, a \in InputIds : NewFrame(c, kind, a, << >>)
    /\ pc' = [pc EXCEPT ![c] = "gat_check"]
    /\ UNCHANGED <<cfgVars, rejected, steadyVars, slotVars, clock, nissued, gatLocals, gat>>

(* lines 69, 96: the request is sent with the token _auth_headers returned *)
GetSend(c) ==
    /\ pc[c] = "get_send"
    /\ ngets' = [ngets EXCEPT ![c] = @ + 1]
    /\ deadline' = [deadline EXCEPT ![c] = clock + TIMEOUT]
    /\ lk' = [lk EXCEPT ![c] = "RequestSent"]
    /\ pc' = [pc EXCEPT ![c] = "get_wait"]
    /\ UNCHANGED <<cfgVars, rejected, steadyVars, slotVars, clock, calls, nissued, op, now, snap, nposts,
                   payload, grant, gat, arg, rstatus, info, batchVars, ret>>

(* lines 69-91, 96-107: the response arrives *)
GetResponse(c) ==
    /\ pc[c] = "get_wait"
    /\ \E r \in CatalogResponses(LookupKind(c), arg[c]) :
        LET res == InfoResult(LookupKind(c), r) IN
        /\ LookupEnd(c, [kind |-> res.kind, val |-> res.val], res.state)
        /\ rstatus' = [rstatus EXCEPT ![c] = r.status]
        /\ rejected' = IF r.status = 401 /\ op[c] \in {"track", "artist"}
                       THEN gat[c].val ELSE rejected
    /\ deadline' = [deadline EXCEPT ![c] = 0]
    /\ UNCHANGED <<cfgVars, steadyVars, slotVars, clock, calls, nissued, op, now, snap, nposts,
                   payload, grant, gat, arg, ngets, batchVars>>

-----------------------------------------------------------------------------
(* validate_tracks_batch, lines 110-127, and validate_artists_batch,        *)
(* lines 130-147                                                            *)

InputLists == UNION {[1..n -> InputIds] : n \in 0..MaxBatch}

(* lines 120, 140 replacing the dict by the one entry *)
DictSetOnly(d, k, v) == [x \in {k} |-> v]

(* lines 120, 140: valid_tracks[track_id] = ... *)
DictSet(d, k, v) == [x \in DOMAIN d \cup {k} |-> IF x = k THEN v ELSE d[x]]

(* lines 119, 139 without the test of the name *)
AcceptedIdOnly(res) ==
    /\ res.kind = "return"
    /\ DOMAIN res.val # {}
    /\ Truthy(Get(res.val, "id", None))

(* lines 119, 139: the lookup returned, and the record passes the test *)
Accepted(res) ==
    /\ res.kind = "return"
    /\ DOMAIN res.val # {}
    /\ Truthy(Get(res.val, "id", None))
    /\ Truthy(Get(res.val, "name", None))

(* lines 124, 144 catching the HTTP error alone *)
CaughtHttpOnly(err) == err = "HTTPError"

(* lines 124, 144 catching the errors of the credential acquisition alone *)
CaughtAuthOnly(err) ==
    err \in {"SpotifyAuthError:config", "SpotifyAuthError:exchange"}

(* lines 124, 144: `except Exception` catches every error the lookup raises *)
Caught(err) ==
    err \in {"SpotifyAuthError:config", "SpotifyAuthError:exchange",
             "RequestException", "JSONDecodeError", "HTTPError", "AttributeError"}

(* How a lookup ended, for the batch's log: it failed (it raised, it        *)
(* returned the empty record, or it returned a record lacking id or name),  *)
(* or it returned a record that has both                                    *)
Outcome(res) ==
    IF res.kind = "raise" THEN "failed"
    ELSE IF DOMAIN res.val = {} THEN "failed"
    ELSE IF ~Truthy(res.val.id) \/ ~Truthy(res.val.name) THEN "failed"
    ELSE "ok"

(* lines 118-119, 138-139: id and name of the record track_info /          *)
(* artist_info when the lookup returned one that passes the test           *)
Fetched(res) ==
    IF Accepted(res) THEN [id |-> res.val.id, name |-> res.val.name] ELSE NoResult

(* lines 115, 135 *)
CallValidateBatch(c) ==
    /\ \E o \in {"vtracks", "vartists"}, l \in InputLists : NewFrame(c, o, "", l)
    /\ pc' = [pc EXCEPT ![c] = "loop"]
    /\ UNCHANGED <<cfgVars, rejected, steadyVars, slotVars, clock, nissued, gatLocals, gat>>

(* lines 116-118, 136-138: the next identifier is looked up; line 127, 147: *)
(* after the last one the dict is returned                                  *)
BatchLoop(c) ==
    /\ pc[c] = "loop"
    /\ IF idx[c] <= Len(ids[c])
       THEN /\ arg' = [arg EXCEPT ![c] = ids[c][idx[c]]]
            /\ lk' = [lk EXCEPT ![c] = "NotStarted"]
            /\ ngets' = [ngets EXCEPT ![c] = 0]
            /\ rstatus' = [rstatus EXCEPT ![c] = 0]
            /\ pc' = [pc EXCEPT ![c] = "gat_check"]
            /\ UNCHANGED ret
       ELSE /\ pc' = [pc EXCEPT ![c] = "done"]
            /\ ret' = [ret EXCEPT ![c] = [kind |-> "return", val |-> valid[c]]]
            /\ UNCHANGED lookupVars
    /\ UNCHANGED <<cfgVars, rejected, steadyVars, slotVars, clock, calls, nissued, op, gatLocals, gat, info,
                   batchVars>>

(* lines 119-126, 139-146: the lookup of ids[idx] ended with info *)
BatchItem(c) ==
    /\ pc[c] = "item"
    /\ IF info[c].kind = "raise" /\ ~Caught(info[c].val)
       THEN /\ pc' = [pc EXCEPT ![c] = "done"]
            /\ ret' = [ret EXCEPT ![c] = info[c]]
            /\ UNCHANGED <<idx, valid>>
       ELSE /\ valid' = [valid EXCEPT ![c] =
                           IF Accepted(info[c])
                           THEN DictSet(@, arg[c], [id |-> info[c].val.id,
                                                    name |-> info[c].val.name])
                           ELSE @]
            /\ idx' = [idx EXCEPT ![c] = @ + 1]
            /\ pc' = [pc EXCEPT ![c] = "loop"]
            /\ UNCHANGED ret
    /\ log' = [log EXCEPT ![c] = Append(@, Outcome(info[c]))]
    /\ got' = [got EXCEPT ![c] = Append(@, Fetched(info[c]))]
    /\ unsent' = [unsent EXCEPT ![c] = @ \/ ngets[c] = 0]
    /\ info' = [info EXCEPT ![c] = NoResult]
    /\ rstatus' = [rstatus EXCEPT ![c] = 0]
    /\ UNCHANGED <<cfgVars, rejected, steadyVars, slotVars, clock, calls, nissued, op, gatLocals, gat,
                   arg, lk, ngets, ids>>

-----------------------------------------------------------------------------
(* A catalog service that answers each identifier the same way whenever it  *)
(* is asked, and a batch validation called again on a reordering of the     *)
(* list it has just validated                                               *)

IsPerm(l, m) ==
    /\ Len(l) = Len(m)
    /\ \A k \in InputIds :
           Cardinality({i \in 1..Len(l) : l[i] = k})
               = Cardinality({i \in 1..Len(m) : m[i] = k})

Reorderings(l) == {m \in [1..Len(l) -> InputIds] : IsPerm(l, m)}

(* The answers of the catalog service the steady runs draw from: a          *)
(* transport failure, a status without a JSON body, and a JSON object that  *)
(* is the full record of a, the full record under another id, or a record   *)
(* without a name                                                           *)
SteadyStatuses == {0, 200, 404, 500}

SteadyResponses(kind, a) ==
    LET rest == IF kind = "track" THEN TrackRest ELSE ArtistRest IN
    {r \in CatalogResponses(kind, a) :
        /\ r.status \in SteadyStatuses
        /\ r.json => r.isdict
        /\ r.isdict => r.body \in {Merge([id |-> a, name |-> "Song"], rest),
                                   Merge([id |-> "relinked", name |-> "Song"], rest),
                                   [id |-> a]}}

(* lines 69-91, 96-107: the response arrives; it is the one the service     *)
(* gave before for this kind and identifier, if it was asked before         *)
GetResponseSteady(c) ==
    /\ pc[c] = "get_wait"
    /\ LET key == <<LookupKind(c), arg[c]>> IN
       \E r \in (IF key \in DOMAIN answers
                 THEN {answers[key]}
                 ELSE SteadyResponses(LookupKind(c), arg[c])) :
           LET res == InfoResult(LookupKind(c), r) IN
           /\ LookupEnd(c, [kind |-> res.kind, val |-> res.val], res.state)
           /\ rstatus' = [rstatus EXCEPT ![c] = r.status]
           /\ answers' = [x \in DOMAIN answers \cup {key} |->
                             IF x = key THEN r ELSE answers[x]]
           /\ rejected' = IF r.status = 401 /\ op[c] \in {"track", "artist"}
                          THEN gat[c].val ELSE rejected
    /\ deadline' = [deadline EXCEPT ![c] = 0]
    /\ UNCHANGED <<cfgVars, prev, slotVars, clock, calls, nissued, op, now, snap, nposts,
                   payload, grant, gat, arg, ngets, batchVars>>

(* The token exchanges the steady runs draw from, told by the state the     *)
(* response leaves: the exchange was refused with 401, or it gave a token   *)
(* with a declared lifetime                                                 *)
SteadyExchange(c) ==
    IF pc[c] = "gat_store_token"
    THEN /\ Truthy(Get(payload[c], "access_token", None))
         /\ "expires_in" \in DOMAIN payload[c]
    ELSE gat[c].status = 401

(* lines 115, 135: the batch that has just returned is called again on a    *)
(* reordering of its list; its acquisitions take the place of those of the  *)
(* batch it repeats                                                         *)
CallValidatePermuted(c) ==
    /\ op[c] \in {"vtracks", "vartists"}
    /\ pc[c] = "done"
    /\ prev[c] = NoPrev
    /\ \E l \in Reorderings(ids[c]) : Frame(c, op[c], "", l)
    /\ prev' = [prev EXCEPT ![c] = [op |-> op[c], ids |-> ids[c], res |-> ret[c],
                                    unsent |-> unsent[c]]]
    /\ pc' = [pc EXCEPT ![c] = "loop"]
    /\ UNCHANGED <<cfgVars, rejected, answers, slotVars, clock, calls, nissued, gatLocals, gat>>

-----------------------------------------------------------------------------
(* One call chain at a time, the synchronous single-threaded use: the       *)
(* credential cache and the single lookups, with time passing               *)

Next ==
    \/ Tick
    \/ \E c \in SeqChains :
        \/ CallGetAccessToken(c)
        \/ CallGetInfo(c)
        \/ GetAccessToken(c)
        \/ GetSend(c)
        \/ GetResponse(c)

Spec == Init /\ [][Next]_vars

(* One call chain running batch validations.  A batch is short against the  *)
(* lifetime of a token: the clock stands still, a token whose declared      *)
(* lifetime is below the margin is expired as soon as it is stored, and a   *)
(* request that times out is a transport failure.                           *)

NextBatch ==
    \E c \in SeqChains :
        \/ CallValidateBatch(c)
        \/ BatchLoop(c)
        \/ GetAccessToken(c)
        \/ GetSend(c)
        \/ GetResponse(c)
        \/ BatchItem(c)

SpecBatch == Init /\ [][NextBatch]_vars

(* One call chain running batch validations, and repeating them on         *)
(* reordered lists, against a catalog service whose answer to an identifier *)
(* never changes                                                            *)

NextPerm ==
    \E c \in SeqChains :
        \/ pc[c] = "idle" /\ CallValidateBatch(c)
        \/ CallValidatePermuted(c)
        \/ BatchLoop(c)
        \/ GatCheck(c)
        \/ GatHit(c)
        \/ GatRequest(c)
        \/ GatResponse(c) /\ SteadyExchange(c)'
        \/ GatStoreToken(c)
        \/ GatStoreExpiry(c)
        \/ GatReturn(c)
        \/ GetSend(c)
        \/ GetResponseSteady(c)
        \/ BatchItem(c)

SpecPerm == Init /\ [][NextPerm]_vars

(* Several call chains acquiring the credential concurrently *)

NextConc ==
    \/ Tick
    \/ \E c \in Chains :
        \/ CallGetAccessToken(c)
        \/ GetAccessToken(c)

SpecConc == Init /\ [][NextConc]_vars

-----------------------------------------------------------------------------
(* Properties *)

ExchangePath ==
    {"gat_request", "gat_wait", "gat_store_token", "gat_store_expiry", "gat_return"}
ConfigMissing == ~Truthy(SPOTIFY_CLIENT_ID) \/ ~Truthy(SPOTIFY_CLIENT_SECRET)
Returned(c) == gat[c].kind = "return" /\ Truthy(gat[c].val)
LookupDone(c) == op[c] \in {"track", "artist"} /\ pc[c] = "done"
BatchDone(c) == op[c] \in {"vtracks", "vartists"} /\ pc[c] = "done"

(* C1, as claimed: every credential get_access_token returns, from the     *)
(* cache or from a fresh exchange, has at least 30 seconds of validity     *)
(* left when it is returned, whatever lifetime the service declared.       *)
C1_MarginAtEveryReturn ==
    \A c \in Chains : Returned(c) => gat[c].left >= MARGIN

(* C1, amended: a credential served from the cache has more than 30        *)
(* seconds of validity left when it is returned; a credential from a fresh *)
(* exchange has at least its declared lifetime less the time the exchange  *)
(* took, which is at most the request timeout.                             *)
C1_MarginOnHit ==
    \A c \in Chains :
        Returned(c) =>
            /\ gat[c].how = "hit" => gat[c].left > MARGIN
            /\ gat[c].how = "fresh" =>
                   /\ gat[c].left >= gat[c].life - gat[c].took
                   /\ gat[c].took <= TIMEOUT

(* A cached credential is returned after time has passed *)
C1_Witness ==
    \E c \in Chains : Returned(c) /\ gat[c].how = "hit" /\ gat[c].at > 0

(* C2: when concurrent chains have each renewed the credential and all     *)
(* have finished, the cached token and the cached expiry belong to the     *)
(* same exchange: the expiry is the one computed for the cached token.     *)
C2_SlotFromOneExchange ==
    (\A c \in Chains : pc[c] \in {"idle", "done"}) /\ Truthy(ACCESS_TOKEN)
        => ACCESS_TOKEN_EXPIRES_AT = slotMeta.now + slotMeta.life - MARGIN

(* C3, as claimed: a call made with no elapsed time after any successful   *)
(* call (one that returned a token) takes the cache-hit path and finds the *)
(* token that call returned.                                               *)
C3_SecondCallHits ==
    \A c \in Chains :
        (/\ Returned(c)
         /\ pc[c] \in ExchangePath \cup {"gat_hit"}
         /\ now[c] = gat[c].at)
            => pc[c] = "gat_hit" /\ ACCESS_TOKEN = gat[c].val

(* C3, amended: a call made with no elapsed time after a successful call   *)
(* that returned a non-empty token, from the cache or from an exchange     *)
(* whose declared lifetime exceeds 30 seconds plus the time the exchange   *)
(* took, takes the cache-hit path, finds the token that call returned and  *)
(* sends no request; and in general a call that finds a non-empty cached   *)
(* token and a clock below the stored expiry returns the cached token,     *)
(* sends no request and never enters the exchange.                         *)
C3_SecondCallHitsWhenFresh ==
    \A c \in Chains :
        /\ (/\ Returned(c)
            /\ pc[c] \in ExchangePath \cup {"gat_hit"}
            /\ now[c] = gat[c].at
            /\ \/ gat[c].how = "hit"
               \/ gat[c].life > MARGIN + gat[c].took)
               => pc[c] = "gat_hit" /\ ACCESS_TOKEN = gat[c].val
        /\ pc[c] \in ExchangePath
               => ~(Truthy(snap[c].tok0) /\ now[c] < snap[c].exp0)
        /\ pc[c] = "gat_hit"
               => ACCESS_TOKEN = snap[c].tok0 /\ nposts[c] = 0
        /\ gat[c].how = "hit"
               => gat[c].nposts = 0 /\ gat[c].same

(* The second call, made as the exchange of the first returned, is on the  *)
(* cache-hit path                                                          *)
C3_Witness ==
    \E c \in Chains :
        /\ pc[c] = "gat_hit"
        /\ gat[c].how = "fresh"
        /\ now[c] = gat[c].at
        /\ ACCESS_TOKEN = gat[c].val

(* C4: a call entered once the clock has reached the point 30 seconds      *)
(* before the cached token's end of life (the `now` of its exchange + its  *)
(* declared lifetime - 30) never returns the cached token: it sends a new  *)
(* exchange request.                                                       *)
C4_RenewsWhenDue ==
    \A c \in Chains :
        /\ snap[c].due => pc[c] \in ExchangePath
        /\ gat[c].due => gat[c].how # "hit" /\ gat[c].nposts = 1

(* The renewal request is pending while the old token is still within its  *)
(* declared lifetime                                                       *)
C4_Witness ==
    \E c \in Chains :
        /\ pc[c] = "gat_wait"
        /\ snap[c].due
        /\ ACCESS_TOKEN = snap[c].tok0
        /\ clock > slotMeta.now
        /\ clock < slotMeta.end

(* C5: with the application identifier or secret missing, every            *)
(* get_access_token call ends with the configuration error, no token       *)
(* request is ever sent, and the slot is as the call found it.             *)
C5_ConfigErrorBeforeRequest ==
    ConfigMissing =>
        \A c \in Chains :
            /\ nposts[c] = 0
            /\ pc[c] \notin ExchangePath \ {"gat_request"}
            /\ gat[c].kind # "none" =>
                   /\ gat[c].kind = "raise"
                   /\ gat[c].val = "SpotifyAuthError:config"
                   /\ gat[c].nposts = 0
                   /\ gat[c].same
            /\ ACCESS_TOKEN = None /\ ACCESS_TOKEN_EXPIRES_AT = 0

(* A call has failed for the secret alone missing *)
C5_Witness ==
    /\ Truthy(SPOTIFY_CLIENT_ID)
    /\ ~Truthy(SPOTIFY_CLIENT_SECRET)
    /\ \E c \in Chains : gat[c].kind = "raise" /\ op[c] = "token" /\ pc[c] = "done"

(* C6: a get_access_token call whose exchange was answered with a status   *)
(* other than 200 ends with the exchange error after exactly one request,  *)
(* and the slot is as the call found it.                                   *)
C6_ExchangeErrorLeavesSlot ==
    \A c \in Chains :
        gat[c].kind # "none" /\ gat[c].status \notin {0, 200} =>
            /\ gat[c].kind = "raise"
            /\ gat[c].val = "SpotifyAuthError:exchange"
            /\ gat[c].nposts = 1
            /\ gat[c].same

(* The renewal of an expired token was answered 201, and the expired token *)
(* is still in the slot                                                    *)
C6_Witness ==
    \E c \in Chains :
        /\ gat[c].status = 201
        /\ gat[c].kind = "raise"
        /\ gat[c].due
        /\ Truthy(ACCESS_TOKEN)
        /\ pc[c] = "done"

(* C7: a lookup answered 404 returns the empty record and raises nothing,  *)
(* and only such a lookup returns the empty record.                        *)
C7_NotFoundIsEmptyRecord ==
    \A c \in Chains :
        LookupDone(c) =>
            /\ rstatus[c] = 404 => ret[c].kind = "return" /\ ret[c].val = EmptyDict
            /\ ret[c].kind = "return" /\ DOMAIN ret[c].val = {} => rstatus[c] = 404

(* An artist lookup was answered 404 *)
C7_Witness ==
    \E c \in Chains :
        /\ LookupDone(c)
        /\ op[c] = "artist"
        /\ rstatus[c] = 404
        /\ lk[c] = "NotFound"

(* C8, as claimed: a lookup answered with a status that is neither 2xx nor *)
(* 404 raises and returns no record.                                       *)
C8_NonSuccessRaises ==
    \A c \in Chains :
        (/\ LookupDone(c)
         /\ rstatus[c] # 0
         /\ rstatus[c] # 404
         /\ ~(rstatus[c] >= 200 /\ rstatus[c] < 300))
            => ret[c].kind = "raise"

(* C8, amended: a lookup answered with a 4xx or 5xx status other than 404  *)
(* raises the HTTP error and returns no record; a 1xx or 3xx answer is     *)
(* never refused for its status.                                           *)
C8_ErrorStatusRaises ==
    \A c \in Chains :
        LookupDone(c) =>
            /\ (rstatus[c] >= 400 /\ rstatus[c] < 600 /\ rstatus[c] # 404)
                   => ret[c].kind = "raise" /\ ret[c].val = "HTTPError"
            /\ (rstatus[c] # 0 /\ rstatus[c] < 400 /\ ret[c].kind = "raise")
                   => ret[c].val # "HTTPError"

(* A track lookup was answered 500 *)
C8_Witness ==
    \E c \in Chains :
        /\ LookupDone(c)
        /\ op[c] = "track"
        /\ rstatus[c] = 500
        /\ lk[c] = "Failed"

(* C9: a batch validation never ends with an error: whatever the lookups   *)
(* of its items did, it can always take its next step, it looks up each    *)
(* position once, and it returns a dict without the identifiers all of     *)
(* whose lookups failed.                                                   *)
C9_BatchNeverRaises ==
    \A c \in SeqChains :
        /\ op[c] \in {"vtracks", "vartists"} /\ pc[c] # "done" => ENABLED NextBatch
        /\ op[c] \in {"vtracks", "vartists"} => idx[c] <= Len(ids[c]) + 1
        /\ BatchDone(c) =>
               /\ ret[c].kind = "return"
               /\ Len(log[c]) = Len(ids[c])
               /\ \A i \in 1..Len(ids[c]) :
                      (\A j \in 1..Len(ids[c]) :
                           ids[c][j] = ids[c][i] => log[c][j] = "failed")
                          => ids[c][i] \notin DOMAIN ret[c].val

(* A batch whose first lookup failed and whose second succeeded has        *)
(* returned                                                                *)
C9_Witness ==
    \E c \in Chains :
        /\ BatchDone(c)
        /\ log[c] = <<"failed", "ok">>
        /\ ids[c] = <<"a", "b">>
        /\ DOMAIN ret[c].val = {"b"}

(* C10: a batch validation of a non-empty list, called with the            *)
(* application identifier or secret missing, ends with the error of the    *)
(* credential acquisition.                                                 *)
C10_AcquisitionFailureRaises ==
    \A c \in Chains :
        BatchDone(c) /\ Len(ids[c]) > 0 /\ ConfigMissing => ret[c].kind = "raise"

(* C11: the keys of the dict a batch validation returns are identifiers of *)
(* its input list, and every value is a record of exactly id and name,     *)
(* both non-empty, equal to the id and name of the record the lookup of    *)
(* that identifier returned (the last one the batch accepted, when the     *)
(* identifier occurs more than once).                                      *)
C11_ValuesFromLookups ==
    \A c \in SeqChains :
        BatchDone(c) /\ ret[c].kind = "return" =>
            \A k \in DOMAIN ret[c].val :
                /\ \E i \in 1..Len(ids[c]) : ids[c][i] = k
                /\ DOMAIN ret[c].val[k] = {"id", "name"}
                /\ Truthy(ret[c].val[k].id)
                /\ Truthy(ret[c].val[k].name)
                /\ \E j \in 1..Len(ids[c]) :
                       /\ ids[c][j] = k
                       /\ log[c][j] = "ok"
                       /\ got[c][j] = ret[c].val[k]
                       /\ \A m \in (j + 1)..Len(ids[c]) :
                              ids[c][m] = k => log[c][m] # "ok"

(* A batch over the same identifier twice has returned; the two lookups    *)
(* returned records with different ids, and the entry is the second one    *)
C11_Witness ==
    \E c \in SeqChains :
        /\ BatchDone(c)
        /\ ids[c] = <<"a", "a">>
        /\ log[c] = <<"ok", "ok">>
        /\ got[c][1].id = "a"
        /\ got[c][2].id = "relinked"
        /\ DOMAIN ret[c].val = {"a"}
        /\ ret[c].val["a"] = got[c][2]

(* C12: the dict a batch validation returns has no entry for an identifier *)
(* one of whose lookups during that call failed (it raised, it returned    *)
(* the empty record, or it returned a record lacking id or name), whether  *)
(* or not the identifier occurs more than once in the input list.          *)
C12_NoEntryForFailedId ==
    \A c \in SeqChains :
        BatchDone(c) /\ ret[c].kind = "return" =>
            \A i \in 1..Len(ids[c]) :
                log[c][i] = "failed" => ids[c][i] \notin DOMAIN ret[c].val

InLookup(c) ==
    pc[c] \in ExchangePath \cup {"gat_check", "gat_hit", "get_send", "get_wait", "item"}

(* C13: a batch validation looks its identifiers up in input order, one    *)
(* lookup with at most one resource request per position; while position i *)
(* is looked up exactly the i-1 earlier lookups have ended, whatever their *)
(* outcomes; every position has been looked up when the batch returns;     *)
(* and an identifier is in the result exactly when a lookup of that        *)
(* identifier was accepted, whatever the lookups of other identifiers did. *)
C13_InOrderAndIsolated ==
    \A c \in SeqChains :
        op[c] \in {"vtracks", "vartists"} =>
            /\ InLookup(c) =>
                   /\ idx[c] \in 1..Len(ids[c])
                   /\ arg[c] = ids[c][idx[c]]
                   /\ Len(log[c]) = idx[c] - 1
                   /\ ngets[c] <= 1
            /\ pc[c] = "loop" => Len(log[c]) = idx[c] - 1
            /\ pc[c] = "done" =>
                   /\ Len(log[c]) = Len(ids[c])
                   /\ ret[c].kind = "return"
                   /\ \A k \in InputIds :
                          k \in DOMAIN ret[c].val <=>
                              \E j \in 1..Len(ids[c]) :
                                  ids[c][j] = k /\ log[c][j] = "ok"

(* After the lookup of the first identifier failed, the resource request   *)
(* for the second, a different one, is pending                             *)
C13_Witness ==
    \E c \in SeqChains :
        /\ op[c] = "vartists"
        /\ pc[c] = "get_wait"
        /\ idx[c] = 2
        /\ log[c] = <<"failed">>
        /\ ids[c] = <<"b", "a">>
        /\ arg[c] = "a"

Repeated(c) == BatchDone(c) /\ prev[c] # NoPrev

C15_ExchangeOverwritesSlot ==
    \A c \in SeqChains :
        /\ pc[c] = "gat_return" =>
               /\ ACCESS_TOKEN = Get(payload[c], "access_token", None)
               /\ ACCESS_TOKEN_EXPIRES_AT =
                      now[c] + Get(payload[c], "expires_in", DEFAULT_EXPIRES_IN) - MARGIN
               /\ nposts[c] = 1
        /\ gat[c].how = "fresh" /\ pc[c] \notin {"gat_store_expiry", "gat_return"} =>
               /\ gat[c].kind = "return"
               /\ gat[c].status = 200
               /\ gat[c].val = Or(ACCESS_TOKEN, "")
               /\ Truthy(ACCESS_TOKEN) => gat[c].val = ACCESS_TOKEN
               /\ gat[c].life \in Lifetimes \cup {DEFAULT_EXPIRES_IN}
               /\ ACCESS_TOKEN_EXPIRES_AT =
                      (gat[c].at - gat[c].took) + gat[c].life - MARGIN

(* A renewal whose request took time and whose answer declared no lifetime *)
(* is about to return: the slot held another token when it was entered     *)
C15_Witness ==
    \E c \in SeqChains :
        /\ pc[c] = "gat_return"
        /\ Truthy(snap[c].tok0)
        /\ Truthy(ACCESS_TOKEN)
        /\ ACCESS_TOKEN # snap[c].tok0
        /\ ACCESS_TOKEN_EXPIRES_AT # snap[c].exp0
        /\ clock > now[c]
        /\ "expires_in" \notin DOMAIN payload[c]

Terminal == {"Success", "NotFound", "Failed"}

(* Where a single lookup stands, by its position in the code *)
LookupShape(c) ==
    /\ pc[c] \in ExchangePath \cup {"gat_check", "gat_hit"} =>
           lk[c] = "NotStarted" /\ ngets[c] = 0
    /\ pc[c] = "get_send" =>
           lk[c] = "CredentialAcquired" /\ ngets[c] = 0 /\ gat[c].kind = "return"
    /\ pc[c] = "get_wait" =>
           lk[c] = "RequestSent" /\ ngets[c] = 1 /\ gat[c].kind = "return"
    /\ pc[c] = "done" =>
           /\ lk[c] \in Terminal
           /\ gat[c].kind = "raise" =>
                  /\ lk[c] = "Failed"
                  /\ ngets[c] = 0
                  /\ ret[c] = [kind |-> "raise", val |-> gat[c].val]
           /\ gat[c].kind = "return" => ngets[c] = 1
           /\ lk[c] = "Success" <=> ret[c].kind = "return" /\ DOMAIN ret[c].val # {}
           /\ lk[c] = "NotFound" <=> ret[c].kind = "return" /\ DOMAIN ret[c].val = {}
           /\ lk[c] = "Failed" <=> ret[c].kind = "raise"
           /\ lk[c] = "NotFound" <=> rstatus[c] = 404

(* The steps of a single lookup *)
LookupStep(c) ==
    lk'[c] # lk[c] =>
        \/ lk'[c] = "NotStarted" /\ pc[c] \in {"idle", "done"}
        \/ lk[c] = "NotStarted" /\ lk'[c] = "CredentialAcquired" /\ gat'[c].kind = "return"
        \/ lk[c] = "NotStarted" /\ lk'[c] = "Failed" /\ gat'[c].kind = "raise"
        \/ lk[c] = "CredentialAcquired" /\ lk'[c] = "RequestSent" /\ ngets'[c] = 1
        \/ lk[c] = "RequestSent" /\ lk'[c] \in Terminal

(* C16: a single lookup goes NotStarted -> CredentialAcquired ->           *)
(* RequestSent -> Success, NotFound or Failed: the resource request is     *)
(* sent only after get_access_token returned, and once; a lookup whose     *)
(* credential acquisition raised ends Failed with that error and no        *)
(* resource request; a lookup that sent its request ends in exactly one of *)
(* Success (a record), NotFound (the empty record, for a 404) and Failed   *)
(* (an error).                                                             *)
C16_LookupStateMachine ==
    /\ [](\A c \in SeqChains : op[c] \in {"track", "artist"} => LookupShape(c))
    /\ [][\A c \in SeqChains : op'[c] \in {"track", "artist"} => LookupStep(c)]_vars

(* A track lookup has failed on a refused token exchange, without sending  *)
(* its resource request                                                    *)
C16_Witness ==
    \E c \in SeqChains :
        /\ LookupDone(c)
        /\ op[c] = "track"
        /\ lk[c] = "Failed"
        /\ gat[c].status = 401
        /\ ngets[c] = 0
        /\ ret[c].val = "SpotifyAuthError:exchange"

(* C17: a get_access_token call that ends on the cache-hit path returns a  *)
(* non-empty token, and a call that found no token or an empty one in the  *)
(* slot performs an exchange whatever the stored expiry.                   *)
C17_HitYieldsToken ==
    \A c \in Chains :
        /\ gat[c].how = "hit" => gat[c].kind = "return" /\ Truthy(gat[c].val)
        /\ pc[c] = "gat_hit" => Truthy(snap[c].tok0)
        /\ pc[c] \in ExchangePath \cup {"gat_hit"} /\ ~Truthy(snap[c].tok0) =>
               pc[c] \in ExchangePath

InRequest(c) == op[c] \in {"track", "artist"} /\ pc[c] \in {"get_send", "get_wait"}

(* C18: from the moment get_access_token returned to a lookup until the    *)
(* lookup has ended, with a record, the empty record or an error, the      *)
(* cached token and expiry do not change, whatever the catalog service     *)
(* answered, 401 included; and a lookup entered while the clock is below   *)
(* the stored expiry takes the cached token again even when it is the      *)
(* token the service last answered 401 to.                                 *)
C18_RequestLeavesCache ==
    /\ [][\A c \in SeqChains :
              InRequest(c) => /\ ACCESS_TOKEN' = ACCESS_TOKEN
                              /\ ACCESS_TOKEN_EXPIRES_AT' = ACCESS_TOKEN_EXPIRES_AT]_vars
    /\ [](\A c \in SeqChains :
              /\ LookupDone(c) /\ gat[c].kind = "return" =>
                     gat[c].val = Or(ACCESS_TOKEN, "")
              /\ LookupDone(c) /\ rstatus[c] = 401 =>
                     rejected = Or(ACCESS_TOKEN, "")
              /\ (/\ pc[c] \in ExchangePath \cup {"gat_hit"}
                  /\ Truthy(rejected)
                  /\ snap[c].tok0 = rejected
                  /\ now[c] < snap[c].exp0) => pc[c] = "gat_hit"
              /\ (/\ InRequest(c)
                  /\ gat[c].how = "hit"
                  /\ Truthy(rejected)
                  /\ ACCESS_TOKEN = rejected) => gat[c].val = rejected)

(* The resource request of a later lookup is pending with the cached token *)
(* that the service answered 401 to, after time has passed                 *)
C18_Witness ==
    \E c \in SeqChains :
        /\ op[c] \in {"track", "artist"}
        /\ pc[c] = "get_wait"
        /\ gat[c].how = "hit"
        /\ Truthy(rejected)
        /\ gat[c].val = rejected
        /\ ACCESS_TOKEN = rejected
        /\ clock > slotMeta.now

=============================================================================
